---- MODULE Spec2Model ----
(***************************************************************************)
(* Model of the position-effect-correction utilities:                      *)
(*   3.correct/correct_position_effect.py  subtract_well_mean,             *)
(*                                         mad_robustize_col,              *)
(*                                         regress_out_cell_counts         *)
(*   1.load/load.py                        load                            *)
(*                                                                         *)
(* Numbers are exact rationals [n, d] in lowest terms with d > 0.  The     *)
(* non-finite floating-point values are the records with d = 0:            *)
(* NaN (pandas' missing value), +inf and -inf.  A column name is the       *)
(* sequence of its tokens, so that "starts with Metadata_" is Head(name).  *)
(* A table is [cols |-> sequence of names, data |-> name -> column].       *)
(***************************************************************************)
EXTENDS Integers, Sequences, FiniteSets, TLC

VARIABLES
    frames,          \* the heap of DataFrame objects: reference -> table
    ann_df,          \* the reference the caller passes to a correction function
    entry,           \* the caller's table as it was when the call was made
    call,            \* the correction call made: its name and arguments
    returned,        \* the reference the call returned (0: nothing returned)
    col,             \* the Series the caller passes to mad_robustize_col
    robustized,      \* the Series mad_robustize_col returned
    pc,              \* load: the statement about to run
    args,            \* load: the arguments of the call
    dataset_source,  \* load: the local variable dataset_source
    opened,          \* load: the calls of ds.dataset made: source and partition field
    df,              \* load: the local variable df (the columns of the table read)
    written,         \* load: the files written by pq.write_table
    retval           \* load: the value returned

vars == <<frames, ann_df, entry, call, returned, col, robustized,
          pc, args, dataset_source, opened, df, written, retval>>

correctVars == <<frames, ann_df, entry, call, returned, col, robustized>>
loadVars == <<pc, args, dataset_source, opened, df, written, retval>>

(***************************************************************************)
(* Bounds of the model.                                                    *)
(***************************************************************************)
MaxRows == 3      \* rows of a table
MaxVal == 5       \* feature values of the well tables are 0..MaxVal or missing
MaxCount == 1     \* values of the cell-count tables are 0..MaxCount or missing
MaxLen == 4       \* length of a Series passed to mad_robustize_col

(***************************************************************************)
(* Exact arithmetic with the floating-point special values.                *)
(***************************************************************************)
Abs(x) == IF x < 0 THEN -x ELSE x

RECURSIVE Gcd(_, _)
Gcd(a, b) == IF b = 0 THEN a ELSE Gcd(b, a % b)

NaN == [n |-> 0, d |-> 0]
PosInf == [n |-> 1, d |-> 0]
NegInf == [n |-> -1, d |-> 0]

\* n/d in lowest terms, d # 0
Rat(n, d) ==
    LET g == Gcd(Abs(n), Abs(d))
        s == IF d < 0 THEN -1 ELSE 1
    IN  [n |-> (s * n) \div g, d |-> (s * d) \div g]

Int2Rat(i) == [n |-> i, d |-> 1]
Zero == Int2Rat(0)

IsFinite(v) == v.d > 0
IsMissing(v) == v = NaN

RAdd(a, b) ==
    IF IsFinite(a) /\ IsFinite(b) THEN Rat(a.n * b.d + b.n * a.d, a.d * b.d)
    ELSE IF a = NaN \/ b = NaN \/ a # b THEN NaN ELSE a

RNeg(a) == [n |-> -a.n, d |-> a.d]

RSub(a, b) == RAdd(a, RNeg(b))

RMul(a, b) ==
    IF IsFinite(a) /\ IsFinite(b) THEN Rat(a.n * b.n, a.d * b.d)
    ELSE IF a = NaN \/ b = NaN \/ a.n = 0 \/ b.n = 0 THEN NaN
    ELSE IF (a.n > 0) = (b.n > 0) THEN PosInf ELSE NegInf

\* IEEE division: x/0 is an infinity, 0/0 is NaN
RDiv(a, b) ==
    IF IsFinite(a) /\ IsFinite(b)
    THEN IF b.n # 0 THEN Rat(a.n * b.d, a.d * b.n)
         ELSE IF a.n = 0 THEN NaN
         ELSE IF a.n > 0 THEN PosInf ELSE NegInf
    ELSE IF a = NaN \/ b = NaN THEN NaN
    ELSE IF ~IsFinite(a) /\ ~IsFinite(b) THEN NaN
    ELSE IF IsFinite(a) THEN Zero
    ELSE IF (a.n > 0) = (b.n >= 0) THEN PosInf ELSE NegInf

\* a <= b for finite a, b
RLe(a, b) == a.n * b.d <= b.n * a.d

RAbs(a) == [n |-> Abs(a.n), d |-> a.d]

RECURSIVE SumSeq(_)
SumSeq(s) == IF s = <<>> THEN Zero ELSE RAdd(Head(s), SumSeq(Tail(s)))

\* the non-missing values of a column, in order (skipna / nan_policy="omit")
DropNa(s) == SelectSeq(s, LAMBDA v: ~IsMissing(v))

\* a mean that counts the missing values in its denominator
MeanCountingMissing(s) == RDiv(SumSeq(DropNa(s)), Int2Rat(Len(s)))

\* Series.mean(): missing values are skipped; the mean of nothing is NaN
Mean(s) == RDiv(SumSeq(DropNa(s)), Int2Rat(Len(DropNa(s))))

(***************************************************************************)
(* Tables and column names.                                                *)
(***************************************************************************)
Metadata_Well == <<"Metadata_", "Well">>
Metadata_Count_Cells == <<"Metadata_", "Count_Cells">>
Cells == <<"Cells">>
Cells_Used == <<"Cells_Used">>
Feature_X == <<"Feature_X">>
Feature_Y == <<"Feature_Y">>
None == <<>>

Range(s) == {s[i] : i \in DOMAIN s}

NRows(t) == IF t.cols = <<>> THEN 0 ELSE Len(t.data[t.cols[1]])

\* df.filter(regex="^(?!Metadata_)").columns
FeatureCols(t) == SelectSeq(t.cols, LAMBDA c: Head(c) # "Metadata_")

HasCol(t, c) == c \in Range(t.cols)

Rows(t) == 1 .. NRows(t)

(***************************************************************************)
(* subtract_well_mean                                                      *)
(***************************************************************************)
\* the values of one group of groupby(key): the rows whose key equals row i's
GroupValues(x, key, i) ==
    LET idx == SelectSeq([j \in DOMAIN x |-> j], LAMBDA j: key[j] = key[i])
    IN  [k \in DOMAIN idx |-> x[idx[k]]]

\* a transform that subtracts the mean of the whole column, not of the group
TransformSubtractColumnMean(x, key) ==
    [i \in DOMAIN x |-> RSub(x[i], Mean(x))]

\* groupby(key)[col].transform(lambda x: x - x.mean())
TransformSubtractMean(x, key) ==
    [i \in DOMAIN x |-> RSub(x[i], Mean(GroupValues(x, key, i)))]

\* the table after ann_df[feature_cols] = ann_df.groupby(...)[feature_cols].transform(...)
SubtractWellMean(t) ==
    LET feature_cols == FeatureCols(t)
    IN  [t EXCEPT !.data =
            [c \in DOMAIN t.data |->
                IF c \in Range(feature_cols)
                THEN TransformSubtractMean(t.data[c], t.data[Metadata_Well])
                ELSE t.data[c]]]

\* a call that leaves the caller's frame alone and returns a new frame
SubtractWellMeanCopy(fr, ref) ==
    [frames |-> Append(fr, SubtractWellMean(fr[ref])), ret |-> Len(fr) + 1]

\* the heap and the reference returned: the assignment writes into the frame
\* the caller passed, and that frame is what is returned
SubtractWellMeanCall(fr, ref) ==
    [frames |-> [fr EXCEPT ![ref] = SubtractWellMean(fr[ref])], ret |-> ref]

NoCall == [name |-> "none", cc_col |-> None, cc_rename |-> None,
           epsilon |-> Zero, raised |-> FALSE]

subtract_well_mean ==
    /\ call.name = "none"
    /\ frames # <<>>
    /\ IF HasCol(frames[ann_df], Metadata_Well)
       THEN LET r == SubtractWellMeanCall(frames, ann_df)
            IN  /\ frames' = r.frames
                /\ returned' = r.ret
                /\ call' = [NoCall EXCEPT !.name = "subtract_well_mean"]
       ELSE \* groupby raises KeyError before anything is assigned
            /\ call' = [NoCall EXCEPT !.name = "subtract_well_mean", !.raised = TRUE]
            /\ UNCHANGED <<frames, returned>>
    /\ UNCHANGED <<ann_df, entry, col, robustized, loadVars>>

(***************************************************************************)
(* mad_robustize_col                                                       *)
(***************************************************************************)
RECURSIVE Insert(_, _)
Insert(v, s) ==
    IF s = <<>> THEN <<v>>
    ELSE IF RLe(v, Head(s)) THEN <<v>> \o s
    ELSE <<Head(s)>> \o Insert(v, Tail(s))

RECURSIVE Sort(_)
Sort(s) == IF s = <<>> THEN <<>> ELSE Insert(Head(s), Sort(Tail(s)))

\* the median of the non-missing values: the middle one of the sorted values,
\* or the mean of the two middle ones; NaN when there is none
Median(s) ==
    LET x == Sort(DropNa(s))
        k == Len(x)
    IN  IF k = 0 THEN NaN
        ELSE IF k % 2 = 1 THEN x[(k + 1) \div 2]
        ELSE RDiv(RAdd(x[k \div 2], x[k \div 2 + 1]), Int2Rat(2))

\* the argument scale=1/1.4826
MadScale == RDiv(Int2Rat(10000), Int2Rat(14826))

\* a median absolute deviation that is left unscaled
MadUnscaled(c, scale) ==
    LET x == DropNa(c)
        med == Median(x)
    IN  Median([i \in DOMAIN x |-> RAbs(RSub(x[i], med))])

\* scipy.stats.median_abs_deviation(col, nan_policy="omit", scale=scale):
\* the median of |x - median(x)| over the non-missing x, divided by scale
median_abs_deviation(c, scale) ==
    LET x == DropNa(c)
        med == Median(x)
    IN  RDiv(Median([i \in DOMAIN x |-> RAbs(RSub(x[i], med))]), scale)

\* (col - col.median()) / (col_mad + epsilon)
MadRobustizeCol(c, epsilon) ==
    LET col_mad == median_abs_deviation(c, MadScale)
    IN  [i \in DOMAIN c |->
            RDiv(RSub(c[i], Median(c)), RAdd(col_mad, epsilon))]

Epsilons == {Zero, Int2Rat(1)}

mad_robustize_col ==
    /\ call.name = "none"
    /\ col # <<>>
    /\ \E epsilon \in Epsilons :
          /\ robustized' = MadRobustizeCol(col, epsilon)
          /\ call' = [NoCall EXCEPT !.name = "mad_robustize_col",
                                    !.epsilon = epsilon]
    /\ UNCHANGED <<frames, ann_df, entry, returned, col, loadVars>>

(***************************************************************************)
(* regress_out_cell_counts                                                 *)
(***************************************************************************)
\* ols(f"{feature} ~ {cc_col}", data=df).fit().resid, aligned to the rows of df
\* by df[feature] = model.resid.  Rows where y or x is missing are dropped
\* from the fit and get a missing residual.  The residual is y minus the
\* projection of y on the span of the intercept and x; when x is constant
\* over the fitted rows the projection is the mean of y.  No row left to
\* fit: the library raises (ok = FALSE).
OlsResid(y, x) ==
    LET idx == SelectSeq([j \in DOMAIN y |-> j],
                         LAMBDA j: ~IsMissing(y[j]) /\ ~IsMissing(x[j]))
        ys == [k \in DOMAIN idx |-> y[idx[k]]]
        xs == [k \in DOMAIN idx |-> x[idx[k]]]
        ybar == Mean(ys)
        xbar == Mean(xs)
        Sxx == SumSeq([k \in DOMAIN idx |->
                          RMul(RSub(xs[k], xbar), RSub(xs[k], xbar))])
        Sxy == SumSeq([k \in DOMAIN idx |->
                          RMul(RSub(xs[k], xbar), RSub(ys[k], ybar))])
        slope == IF Sxx = Zero THEN Zero ELSE RDiv(Sxy, Sxx)
    IN  IF idx = <<>> THEN [ok |-> FALSE, resid |-> y]
        ELSE [ok |-> TRUE,
              resid |-> [j \in DOMAIN y |->
                  IF IsMissing(y[j]) \/ IsMissing(x[j]) THEN NaN
                  ELSE RSub(RSub(y[j], ybar), RMul(slope, RSub(x[j], xbar)))]]

\* for feature in feature_cols: df[feature] = ols(...).fit().resid
\* Each fit reads the table as the earlier iterations left it.
RECURSIVE RegressLoop(_, _, _)
RegressLoop(t, feature_cols, cc_col) ==
    IF feature_cols = <<>> THEN [ok |-> TRUE, t |-> t]
    ELSE LET feature == Head(feature_cols)
             model == OlsResid(t.data[feature], t.data[cc_col])
         IN  IF ~model.ok THEN [ok |-> FALSE, t |-> t]
             ELSE RegressLoop([t EXCEPT !.data[feature] = model.resid],
                              Tail(feature_cols), cc_col)

\* df.rename(columns={cc_col: cc_rename}, inplace=True)
Rename(t, old, new) ==
    [cols |-> [i \in DOMAIN t.cols |-> IF t.cols[i] = old THEN new ELSE t.cols[i]],
     data |-> [c \in (DOMAIN t.data \ {old}) \cup {new} |->
                  IF c = new THEN t.data[old] ELSE t.data[c]]]

\* the table the body of regress_out_cell_counts leaves in df
RegressOutCellCounts(t, cc_col, cc_rename) ==
    LET r == RegressLoop(t, FeatureCols(t), cc_col)
    IN  IF ~r.ok THEN r
        ELSE IF cc_rename # None THEN [ok |-> TRUE, t |-> Rename(r.t, cc_col, cc_rename)]
        ELSE r

\* the heap and the reference returned (0 when the call raised): every
\* assignment, and the rename, act on the frame the caller passed
RegressOutCellCountsCall(fr, ref, cc_col, cc_rename) ==
    LET r == RegressOutCellCounts(fr[ref], cc_col, cc_rename)
    IN  [frames |-> [fr EXCEPT ![ref] = r.t], ret |-> IF r.ok THEN ref ELSE 0]

CellCountCols == {Cells, Metadata_Count_Cells}

regress_out_cell_counts ==
    /\ call.name = "none"
    /\ frames # <<>>
    /\ \E cc_col \in CellCountCols \cap Range(frames[ann_df].cols),
          cc_rename \in {None, Cells_Used} :
          LET r == RegressOutCellCountsCall(frames, ann_df, cc_col, cc_rename)
          IN  /\ frames' = r.frames
              /\ returned' = r.ret
              /\ call' = [NoCall EXCEPT !.name = "regress_out_cell_counts",
                                        !.cc_col = cc_col, !.cc_rename = cc_rename,
                                        !.raised = (r.ret = 0)]
    /\ UNCHANGED <<ann_df, entry, col, robustized, loadVars>>

(***************************************************************************)
(* The tables a caller passes.                                             *)
(***************************************************************************)
Values(max) == {Int2Rat(i) : i \in 0 .. max} \cup {NaN}

Wells == {"A1", "A2"}

\* the second feature column of a well table
YCols == {[i \in 1 .. MaxRows |-> Int2Rat(i * i)]}

\* cell counts: never missing
Counts(max) == {Int2Rat(i) : i \in 0 .. max}

WellTables ==
    {[cols |-> <<Metadata_Well, Feature_X, Feature_Y>>,
      data |-> (Metadata_Well :> w) @@ (Feature_X :> x) @@ (Feature_Y :> y)] :
        w \in [1 .. MaxRows -> Wells],
        x \in [1 .. MaxRows -> Values(MaxVal)],
        y \in YCols}

CountLayouts == {<<Cells, Feature_X>>, <<Feature_X, Cells>>,
                 <<Metadata_Count_Cells, Feature_X>>}

CountTables ==
    {[cols |-> l,
      data |-> [c \in Range(l) |-> IF c \in CellCountCols THEN cc ELSE x]] :
        l \in CountLayouts,
        cc \in [1 .. MaxRows -> Counts(MaxCount)],
        x \in [1 .. MaxRows -> Values(MaxCount)]}

LoadIdle ==
    /\ pc = "idle"
    /\ args = <<>>
    /\ dataset_source = <<>>
    /\ opened = <<>>
    /\ df = <<>>
    /\ written = <<>>
    /\ retval = <<>>

Init ==
    /\ \E t \in WellTables \cup CountTables :
          /\ frames = <<t>>
          /\ entry = t
    /\ ann_df = 1
    /\ call = NoCall
    /\ returned = 0
    /\ col = <<>>
    /\ robustized = <<>>
    /\ LoadIdle

Next ==
    \/ subtract_well_mean
    \/ regress_out_cell_counts

Spec == Init /\ [][Next]_vars

(***************************************************************************)
(* The Series a caller passes to mad_robustize_col.                        *)
(***************************************************************************)
InitMad ==
    /\ \E len \in 1 .. MaxLen : col \in [1 .. len -> Values(MaxVal)]
    /\ frames = <<>>
    /\ entry = <<>>
    /\ ann_df = 0
    /\ call = NoCall
    /\ returned = 0
    /\ robustized = <<>>
    /\ LoadIdle

NextMad == mad_robustize_col

SpecMad == InitMad /\ [][NextMad]_vars

(***************************************************************************)
(* load                                                                    *)
(* A Python value is [kind, val]; a string is the sequence of its parts,   *)
(* so that endswith(".parquet") reads the last part.  dataset_source is    *)
(* the sequence of the path's segments.                                    *)
(***************************************************************************)
PyNone == [kind |-> "None", val |-> <<>>]
PyStr(parts) == [kind |-> "str", val |-> parts]
PyList(items) == [kind |-> "list", val |-> items]
PyTuple(items) == [kind |-> "tuple", val |-> items]
PyInt(digits) == [kind |-> "int", val |-> <<digits>>]

Metadata_Source == <<"Metadata_", "Source">>
Nuclei_AreaShape_Area == <<"Nuclei_AreaShape_Area">>

\* the columns of the remote Parquet files
RemoteColumns == <<Metadata_Source, Metadata_Well, Nuclei_AreaShape_Area>>

Outputs == {PyNone, PyStr(<<"test", ".parquet">>), PyStr(<<"test", ".csv">>),
            PyInt("42")}
ColumnArgs == {PyNone, PyList(<<Metadata_Well, Nuclei_AreaShape_Area>>),
               PyList(<<Feature_X>>), PyTuple(<<Metadata_Well>>)}
Components == {"profiles", "load_data_csv", "images"}
Batches == {PyNone, PyStr(<<"2021_06_14_Batch6">>)}
Plates == {PyNone, PyStr(<<"BR00121429">>)}

\* the assertion falls through: the next statement; it fails: AssertionError
AssertThen(cond, next) == IF cond THEN next ELSE "failed"

\* lines 59-61
CheckOutput(a) ==
    IF a.output # PyNone
    THEN AssertThen(a.output.kind = "str"
                    /\ a.output.val[Len(a.output.val)] = ".parquet",
                    "check_columns")
    ELSE "check_columns"

\* lines 63-65
CheckColumns(a) ==
    IF a.columns # PyNone
    THEN AssertThen(a.columns.kind = "list", "check_component")
    ELSE "check_component"

\* lines 67-70
CheckComponent(a) ==
    AssertThen(a.component \in {"profiles", "load_data_csv"}, "check_plate")

\* the check of plate against batch left out
CheckPlateSkipped(a) == "build_source"

\* lines 72-73
CheckPlate(a) ==
    IF a.batch = PyNone
    THEN AssertThen(a.plate = PyNone, "build_source")
    ELSE "build_source"

\* a location that follows the component's name
DatasetSourceByComponent(a) ==
    LET base == <<"cellpainting-gallery", a.dataset, a.source, "workspace", a.component>>
    IN  IF a.batch # PyNone
        THEN IF a.plate # PyNone
             THEN base \o a.batch.val \o a.plate.val
             ELSE base \o a.batch.val
        ELSE base

\* lines 75-80
DatasetSource(a) ==
    LET base == <<"cellpainting-gallery", a.dataset, a.source, "workspace", "profiles">>
    IN  IF a.batch # PyNone
        THEN IF a.plate # PyNone
             THEN base \o a.batch.val \o a.plate.val
             ELSE base \o a.batch.val
        ELSE base

\* a read that ignores the columns asked for
ToTableAll(columns) == RemoteColumns

\* dataset.to_table(columns=columns): every column, or the ones asked for
ToTable(columns) == IF columns = PyNone THEN RemoteColumns ELSE columns.val

load_check_output ==
    /\ pc = "check_output"
    /\ pc' = CheckOutput(args)
    /\ UNCHANGED <<args, dataset_source, opened, df, written, retval, correctVars>>

load_check_columns ==
    /\ pc = "check_columns"
    /\ pc' = CheckColumns(args)
    /\ UNCHANGED <<args, dataset_source, opened, df, written, retval, correctVars>>

load_check_component ==
    /\ pc = "check_component"
    /\ pc' = CheckComponent(args)
    /\ UNCHANGED <<args, dataset_source, opened, df, written, retval, correctVars>>

load_check_plate ==
    /\ pc = "check_plate"
    /\ pc' = CheckPlate(args)
    /\ UNCHANGED <<args, dataset_source, opened, df, written, retval, correctVars>>

load_build_source ==
    /\ pc = "build_source"
    /\ dataset_source' = DatasetSource(args)
    /\ pc' = "open_dataset"
    /\ UNCHANGED <<args, opened, df, written, retval, correctVars>>

\* lines 84-102: the remote listing succeeds, or the library raises
load_open_dataset ==
    /\ pc = "open_dataset"
    /\ opened' = Append(opened, [source |-> dataset_source, field |-> args.component])
    /\ \/ pc' = "to_table"
       \/ pc' = "failed"
    /\ UNCHANGED <<args, dataset_source, df, written, retval, correctVars>>

\* line 108: a column the files do not have, or a failed download, raises
load_to_table ==
    /\ pc = "to_table"
    /\ \/ /\ Range(ToTable(args.columns)) \subseteq Range(RemoteColumns)
          /\ df' = PyList(ToTable(args.columns))
          /\ pc' = "emit"
       \/ /\ df' = df
          /\ pc' = "failed"
    /\ UNCHANGED <<args, dataset_source, opened, written, retval, correctVars>>

\* lines 110-114
load_emit ==
    /\ pc = "emit"
    /\ IF args.output # PyNone
       THEN \/ /\ written' = Append(written, [path |-> args.output.val, table |-> df.val])
               /\ pc' = "done"
            \/ /\ written' = written
               /\ pc' = "failed"
       ELSE /\ written' = written
            /\ pc' = "done"
    /\ retval' = IF args.output # PyNone THEN PyNone ELSE df
    /\ UNCHANGED <<args, dataset_source, opened, df, correctVars>>

InitLoad ==
    /\ pc = "check_output"
    /\ args \in [dataset : {"cpg0016-jump"}, source : {"source_4"},
                 component : Components, batch : Batches, plate : Plates,
                 columns : ColumnArgs, output : Outputs]
    /\ dataset_source = <<>>
    /\ opened = <<>>
    /\ df = PyNone
    /\ written = <<>>
    /\ retval = PyNone
    /\ frames = <<>>
    /\ ann_df = 0
    /\ entry = <<>>
    /\ call = NoCall
    /\ returned = 0
    /\ col = <<>>
    /\ robustized = <<>>

NextLoad ==
    \/ load_check_output
    \/ load_check_columns
    \/ load_check_component
    \/ load_check_plate
    \/ load_build_source
    \/ load_open_dataset
    \/ load_to_table
    \/ load_emit

SpecLoad == InitLoad /\ [][NextLoad]_vars

(***************************************************************************)
(* Properties of the correction functions, checked under Spec.             *)
(***************************************************************************)
\* the caller's frame as it is now
Now == frames[ann_df]

Returned(name) == call.name = name /\ ~call.raised

\* the rows of table t whose Metadata_Well equals row i's
SameWell(t, i) ==
    {j \in Rows(t) : t.data[Metadata_Well][j] = t.data[Metadata_Well][i]}

RECURSIVE SumOver(_, _)
SumOver(S, x) ==
    IF S = {} THEN Zero
    ELSE LET j == CHOOSE j \in S : TRUE
         IN  RAdd(x[j], SumOver(S \ {j}, x))

NonMissing(S, x) == {j \in S : ~IsMissing(x[j])}

\* C4: after subtract_well_mean every feature value is the value on entry
\* minus the mean of its column over the rows of the same well (the mean of
\* the non-missing values; a missing value stays missing), each column by
\* its own values only; [A1,A1,A2], [1,3,5] gives [-1,1,0].
C4_WellMeanSubtracted ==
    Returned("subtract_well_mean") =>
        /\ \A c \in Range(FeatureCols(entry)) : \A i \in Rows(entry) :
              LET old == entry.data[c]
                  P == NonMissing(SameWell(entry, i), old)
                  k == Int2Rat(Cardinality(P))
              IN  IF IsMissing(old[i]) THEN IsMissing(Now.data[c][i])
                  ELSE /\ IsFinite(Now.data[c][i])
                       /\ RMul(k, Now.data[c][i]) = RSub(RMul(k, old[i]), SumOver(P, old))
        /\ (/\ entry.data[Metadata_Well] = <<"A1", "A1", "A2">>
            /\ entry.data[Feature_X] = <<Int2Rat(1), Int2Rat(3), Int2Rat(5)>>)
           => Now.data[Feature_X] = <<Int2Rat(-1), Int2Rat(1), Int2Rat(0)>>

C4_Witness ==
    /\ Returned("subtract_well_mean")
    /\ entry.data[Metadata_Well] = <<"A1", "A1", "A2">>
    /\ entry.data[Feature_X] = <<Int2Rat(1), Int2Rat(3), Int2Rat(5)>>
    /\ Now.data[Feature_X] = <<Int2Rat(-1), Int2Rat(1), Int2Rat(0)>>
    /\ Now.data[Feature_Y] # entry.data[Feature_Y]

\* C5 as stated: after subtract_well_mean the mean (pandas' mean, which skips
\* missing values) of every feature column over the rows of every well is 0,
\* and every feature value of a row alone in its well is 0.
C5_WellSumsZero ==
    Returned("subtract_well_mean") =>
        \A c \in Range(FeatureCols(entry)) : \A i \in Rows(entry) :
            /\ Mean(GroupValues(Now.data[c], entry.data[Metadata_Well], i)) = Zero
            /\ SameWell(entry, i) = {i} => Now.data[c][i] = Zero

\* C5 amended: the non-missing values of every feature column over the rows
\* of every well sum to 0, every non-missing feature value of a row alone in
\* its well becomes 0, and a missing feature value stays missing.
C5_WellSumsZeroNonMissing ==
    Returned("subtract_well_mean") =>
        \A c \in Range(FeatureCols(entry)) : \A i \in Rows(entry) :
            /\ SumOver(NonMissing(SameWell(entry, i), Now.data[c]), Now.data[c]) = Zero
            /\ IsMissing(entry.data[c][i]) <=> IsMissing(Now.data[c][i])
            /\ (SameWell(entry, i) = {i} /\ ~IsMissing(entry.data[c][i]))
                   => Now.data[c][i] = Zero

C5_Witness ==
    /\ Returned("subtract_well_mean")
    /\ \E i, j, k \in Rows(entry) :
          /\ SameWell(entry, i) = {i}
          /\ entry.data[Feature_X][i] = Int2Rat(MaxVal)
          /\ Now.data[Feature_X][i] = Zero
          /\ SameWell(entry, j) = {j, k}
          /\ j # k
          /\ IsMissing(entry.data[Feature_X][j])
          /\ IsMissing(Now.data[Feature_X][j])
          /\ entry.data[Feature_X][k] = Int2Rat(1)
          /\ Now.data[Feature_X][k] = Zero

\* C9: subtract_well_mean, and regress_out_cell_counts called with a
\* Metadata_ cell-count column and no rename, return the frame they were
\* given, make no other frame, keep the column names and their order, the
\* number of rows and every Metadata_ column, and leave the new feature
\* values (zero sum per well, zero sum of residuals) in the caller's frame.
C9_SameFrameMetadataKept ==
    (\/ Returned("subtract_well_mean")
     \/ /\ Returned("regress_out_cell_counts")
        /\ Head(call.cc_col) = "Metadata_"
        /\ call.cc_rename = None)
    =>  /\ returned = ann_df
        /\ Len(frames) = 1
        /\ Now.cols = entry.cols
        /\ DOMAIN Now.data = DOMAIN entry.data
        /\ \A c \in DOMAIN entry.data :
              /\ DOMAIN Now.data[c] = DOMAIN entry.data[c]
              /\ Head(c) = "Metadata_" => Now.data[c] = entry.data[c]
              /\ Head(c) # "Metadata_" =>
                    IF call.name = "subtract_well_mean"
                    THEN \A i \in Rows(entry) :
                            SumOver(NonMissing(SameWell(entry, i), Now.data[c]),
                                    Now.data[c]) = Zero
                    ELSE SumOver(NonMissing(Rows(entry), Now.data[c]), Now.data[c]) = Zero

C9_Witness ==
    /\ Returned("regress_out_cell_counts")
    /\ call.cc_col = Metadata_Count_Cells
    /\ call.cc_rename = None
    /\ returned = ann_df
    /\ Now.data[Metadata_Count_Cells] = entry.data[Metadata_Count_Cells]
    /\ Now.data[Feature_X] # entry.data[Feature_X]
    /\ \E i \in Rows(entry) : IsMissing(entry.data[Feature_X][i])

(***************************************************************************)
(* Properties of mad_robustize_col, checked under SpecMad.                 *)
(***************************************************************************)
\* m is a median of the values of x at the positions P: P splits into a lower
\* and an upper half, no lower value above an upper one, and m is the least
\* upper value (odd count) or midway between the greatest lower and the
\* least upper value (even count)
IsMedianOf(m, x, P) ==
    LET k == Cardinality(P)
    IN  \E L \in SUBSET P :
           LET U == P \ L
           IN  /\ Cardinality(L) = k \div 2
               /\ \A a \in L, b \in U : RLe(x[a], x[b])
               /\ \E b \in U :
                     /\ \A u \in U : RLe(x[b], x[u])
                     /\ IF k % 2 = 1 THEN m = x[b]
                        ELSE \E a \in L :
                                /\ \A l \in L : RLe(x[l], x[a])
                                /\ RAdd(m, m) = RAdd(x[a], x[b])

MidPoints(x, P) == {RDiv(RAdd(x[a], x[b]), Int2Rat(2)) : a, b \in P}

MedianOf(x, P) == CHOOSE m \in MidPoints(x, P) : IsMedianOf(m, x, P)

\* C6: mad_robustize_col returns (value - median) / (mad + epsilon) at every
\* position, median and mad (1.4826 times the median absolute deviation from
\* the median) taken over the non-missing values; a missing value stays
\* missing; with epsilon = 0 and mad > 0 the output's median is 0.
C6_MadRobustized ==
    Returned("mad_robustize_col") =>
        LET P == NonMissing(DOMAIN col, col)
        IN  /\ DOMAIN robustized = DOMAIN col
            /\ \A i \in DOMAIN col \ P : IsMissing(robustized[i])
            /\ P # {} =>
                 LET med == MedianOf(col, P)
                     dev == [i \in DOMAIN col |-> RAbs(RSub(col[i], med))]
                     mad == RMul(Rat(14826, 10000), MedianOf(dev, P))
                     den == RAdd(mad, call.epsilon)
                 IN  /\ \A i \in P :
                           IF den # Zero
                           THEN /\ IsFinite(robustized[i])
                                /\ RMul(robustized[i], den) = RSub(col[i], med)
                           ELSE ~IsFinite(robustized[i])
                     /\ (call.epsilon = Zero /\ mad # Zero)
                            => IsMedianOf(Zero, robustized, P)

C6_Witness ==
    /\ Returned("mad_robustize_col")
    /\ call.epsilon = Zero
    /\ col = <<NaN, Int2Rat(0), Int2Rat(1), Int2Rat(5)>>
    /\ robustized = <<NaN, Rat(-5000, 7413), Zero, Rat(20000, 7413)>>

(***************************************************************************)
(* Properties of regress_out_cell_counts, checked under Spec.              *)
(***************************************************************************)
\* the name a column of the table on entry has in the table returned
NameNow(c) == IF c = call.cc_col /\ call.cc_rename # None THEN call.cc_rename ELSE c

\* C1: after regress_out_cell_counts(df, "Cells", "Cells_Used") the table has
\* a column Cells_Used holding the values Cells had on entry, and no column
\* Cells.
C1_RenamedKeepsCounts ==
    (/\ Returned("regress_out_cell_counts")
     /\ call.cc_col = Cells
     /\ call.cc_rename = Cells_Used)
    =>  /\ HasCol(Now, Cells_Used)
        /\ ~HasCol(Now, Cells)
        /\ Now.data[Cells_Used] = entry.data[Cells]

\* C2: regress_out_cell_counts replaces every feature column by the residuals
\* of its least-squares fit, with intercept, against the cell-count column as
\* it was on entry, wherever the feature stands relative to that column.
C2_ResidualsAgainstEntryCounts ==
    Returned("regress_out_cell_counts") =>
        \A f \in Range(FeatureCols(entry)) :
            Now.data[NameNow(f)] = OlsResid(entry.data[f], entry.data[call.cc_col]).resid

\* C3: after regress_out_cell_counts every feature column is uncorrelated
\* with the cell counts: over the fitted rows, the sum of residual times
\* (cell count minus mean cell count) is 0.
C3_ResidualsUncorrelated ==
    Returned("regress_out_cell_counts") =>
        \A f \in Range(FeatureCols(entry)) \ {call.cc_col} :
            LET r == Now.data[f]
                cc == entry.data[call.cc_col]
                P == NonMissing(Rows(entry), r)
                mean == RDiv(SumOver(P, cc), Int2Rat(Cardinality(P)))
            IN  SumOver(P, [i \in Rows(entry) |-> RMul(r[i], RSub(cc[i], mean))]) = Zero

(***************************************************************************)
(* Properties of load, checked under SpecLoad.                             *)
(***************************************************************************)
PreconditionViolated(a) ==
    \/ a.output # PyNone /\ a.output.kind # "str"
    \/ a.output.kind = "str" /\ a.output.val[Len(a.output.val)] # ".parquet"
    \/ a.columns # PyNone /\ a.columns.kind # "list"
    \/ a.component # "profiles" /\ a.component # "load_data_csv"
    \/ a.plate # PyNone /\ a.batch = PyNone

\* C7: with a violated precondition load never opens the dataset, reads a
\* table, writes a file or returns a value: it is still checking, or failed.
C7_FailsBeforeOpen ==
    PreconditionViolated(args) =>
        /\ pc \in {"check_output", "check_columns", "check_component",
                   "check_plate", "failed"}
        /\ opened = <<>>
        /\ df = PyNone
        /\ written = <<>>
        /\ retval = PyNone

C7_Witness ==
    /\ pc = "failed"
    /\ args.output = PyStr(<<"test", ".parquet">>)
    /\ args.columns.kind = "list"
    /\ args.component = "profiles"
    /\ args.batch = PyNone
    /\ args.plate # PyNone
    /\ opened = <<>>

\* C8: a successful load with output given writes the table to that file,
\* once, and returns nothing; with output None it returns the table and
\* writes nothing; the table has the columns asked for when columns is given.
C8_WritesOrReturns ==
    pc = "done" =>
        LET table == IF args.columns.kind = "list" THEN args.columns.val
                     ELSE RemoteColumns
        IN  IF args.output = PyNone
            THEN retval = PyList(table) /\ written = <<>>
            ELSE /\ written = <<[path |-> args.output.val, table |-> table]>>
                 /\ retval = PyNone

C8_Witness ==
    /\ pc = "done"
    /\ args.output = PyStr(<<"test", ".parquet">>)
    /\ args.columns = PyList(<<Metadata_Well, Nuclei_AreaShape_Area>>)
    /\ written = <<[path |-> <<"test", ".parquet">>,
                    table |-> <<Metadata_Well, Nuclei_AreaShape_Area>>]>>
    /\ retval = PyNone

\* C10: the location opened is cellpainting-gallery/<dataset>/<source>/
\* workspace/profiles, then the batch when one is given, then the plate when
\* batch and plate are given; no plate follows without a batch, and the
\* component does not change the location.
C10_RemoteLocation ==
    \A k \in DOMAIN opened :
        LET root == <<"cellpainting-gallery", args.dataset, args.source,
                      "workspace", "profiles">>
            src == opened[k].source
        IN  /\ SubSeq(src, 1, Len(root)) = root
            /\ SubSeq(src, Len(root) + 1, Len(src)) =
                  (IF args.batch = PyNone THEN <<>> ELSE args.batch.val)
                  \o (IF args.batch = PyNone \/ args.plate = PyNone THEN <<>>
                      ELSE args.plate.val)
            /\ args.plate # PyNone => args.batch # PyNone

C10_Witness ==
    /\ args.component = "load_data_csv"
    /\ args.batch # PyNone
    /\ args.plate # PyNone
    /\ Len(opened) = 1
    /\ opened[1].source = <<"cellpainting-gallery", "cpg0016-jump", "source_4",
                           "workspace", "profiles", "2021_06_14_Batch6", "BR00121429">>

====
